---- MODULE Spec2Model ----
(***************************************************************************)
(* Model of app.py: the "what to watch tonight" Flask backend.             *)
(*                                                                         *)
(* The process loads the module (reads GOOGLE_API_KEY, builds the          *)
(* GenerativeModel handle or leaves it None), then serves GET /check and   *)
(* POST /api/execute.  Every handler is one atomic step.                   *)
(*                                                                         *)
(* Text is modelled as a sequence of tokens: the characters of a query,    *)
(* the words of an exception message, or a whole literal of the source.    *)
(* f-string interpolation is concatenation of such sequences.              *)
(***************************************************************************)
EXTENDS Integers, Sequences, FiniteSets, TLC

-----------------------------------------------------------------------------
(* Bounds *)

MaxRequests == 2
MaxQueryLen == 2

-----------------------------------------------------------------------------
(* Python values *)

\* A character alphabet with one whitespace and one non-whitespace character.
Chars == {" ", "a"}
Whitespace == {" "}

Strings == UNION {[1..k -> Chars] : k \in 0..MaxQueryLen}

\* The value stored under the key 'query' of a JSON object, or its absence.
NoQuery == [type |-> "absent", str |-> <<>>]
PyStr(s) == [type |-> "string", str |-> s]
QueryValues == {PyStr(s) : s \in Strings}
                 \cup {[type |-> "number", str |-> <<>>],
                       [type |-> "null", str |-> <<>>]}

\* A parsed JSON document.  size is the number of members of an object, the
\* number of elements of an array, the length of a string, the value of a
\* number, 1/0 for true/false.  JSON null is Python None.
PyNone == [type |-> "null", size |-> 0, query |-> NoQuery]
JsonObjects == {[type |-> "object", size |-> 0, query |-> NoQuery],
                [type |-> "object", size |-> 1, query |-> NoQuery]}
                 \cup {[type |-> "object", size |-> 1, query |-> q] : q \in QueryValues}
JsonNonObjects == {[type |-> t, size |-> n, query |-> NoQuery] :
                      t \in {"array", "string", "number", "boolean"}, n \in 0..1}
                    \cup {PyNone}
JsonValues == JsonObjects \cup JsonNonObjects

\* The body of a request as it arrives: a mimetype and, when there is a body,
\* either text that is not JSON or the text of a JSON document.
Bodies == {[mimetype |-> "application/json", present |-> FALSE, wellFormed |-> FALSE, value |-> PyNone],
           [mimetype |-> "application/json", present |-> TRUE, wellFormed |-> FALSE, value |-> PyNone],
           [mimetype |-> "text/plain", present |-> TRUE, wellFormed |-> FALSE, value |-> PyNone]}
            \cup {[mimetype |-> m, present |-> TRUE, wellFormed |-> TRUE, value |-> v] :
                     m \in {"application/json", "text/plain"}, v \in JsonValues}

\* What model.generate_content / response.text does when it is called.
Texts == {<<"X">>, <<" ", "Y", " ">>}
Messages == {<<"quota">>, <<"rate", "limit">>}
ProviderOutcomes == {[kind |-> "return", exc |-> "", text |-> t] : t \in Texts}
                      \cup {[kind |-> "raise", exc |-> c, text |-> m] :
                               c \in {"APIError", "ValueError", "ConnectionError"},
                               m \in Messages}
NoOutcome == [kind |-> "none", exc |-> "", text |-> <<>>]

\* Truthy with the `if not data` guard of line 113 left out.
TruthyNoGuard(v) == TRUE

\* Python truthiness of a parsed document (the operand of `not data`).
Truthy(v) ==
    CASE v.type = "null" -> FALSE
      [] v.type = "boolean" -> v.size = 1
      [] v.type = "number" -> v.size # 0
      [] OTHER -> v.size > 0

\* request.get_json(silent=True): None unless the mimetype is JSON and the
\* body parses.
get_json(body) ==
    IF body.mimetype # "application/json" THEN PyNone
    ELSE IF ~body.present \/ ~body.wellFormed THEN PyNone
    ELSE body.value

\* str.strip()
RECURSIVE lstrip(_)
lstrip(s) == IF s # <<>> /\ Head(s) \in Whitespace THEN lstrip(Tail(s)) ELSE s
RECURSIVE rstrip(_)
rstrip(s) == IF s # <<>> /\ s[Len(s)] \in Whitespace
             THEN rstrip(SubSeq(s, 1, Len(s) - 1)) ELSE s
strip(s) == rstrip(lstrip(s))

Contains(s, sub) == \E i \in 1..(Len(s) - Len(sub) + 1) : SubSeq(s, i, i + Len(sub) - 1) = sub

-----------------------------------------------------------------------------
(* Literals of the source *)

ModelName == "gemini-2.5-flash"
PLACEHOLDER == <<"No extra constraints provided.">>
PROMPT_HEAD == <<"You are my entertainment assistant. ... USER CONTEXT: ">>
PROMPT_TAIL == <<"TASK: ... Want further suggestions in another genre or mood?">>
NOT_INITIALIZED == <<"AI service not initialized. Check API key configuration.">>
INVALID_PAYLOAD == <<"Invalid or missing JSON payload.">>
UNAVAILABLE_PREFIX == <<"AI Service Unavailable or request error: ">>
GENERIC_ERROR == <<"An unexpected internal server error occurred.">>

-----------------------------------------------------------------------------
(* Process state *)

VARIABLES
    environ,        \* GOOGLE_API_KEY in the process environment
    phase,          \* "loading" while the module body runs, then "serving"
    API_KEY,        \* module global
    MODEL_TO_USE,   \* module global
    model,          \* module global: None or the GenerativeModel handle
    stdout,         \* the lines printed so far
    request,        \* the request handled last
    provider,       \* what the provider did in the last request, if called
    outbound,       \* the prompts sent to the provider by the last request
    response,       \* the response to the last request
    uncaught,       \* exception class that left the last handler, "" if none
    served,         \* number of requests handled
    sent            \* number of outbound generation calls since startup

vars == <<environ, phase, API_KEY, MODEL_TO_USE, model, stdout, request,
          provider, outbound, response, uncaught, served, sent>>

\* os.environ.get: None, or the value of the variable.
Unset == [set |-> FALSE, value |-> ""]
Environs == {Unset, [set |-> TRUE, value |-> ""], [set |-> TRUE, value |-> "key"]}
KeyTruthy(k) == k.set /\ k.value # ""

\* The module global `model`.
None == <<>>
GenerativeModel(name) == <<"GenerativeModel", name>>
\* ModelTruthy with the `if not model` guards left out.
ModelTruthyNoGuard(m) == TRUE

ModelTruthy(m) == m # None

NoRequest == [route |-> "", body |-> [mimetype |-> "", present |-> FALSE, wellFormed |-> FALSE, value |-> PyNone]]
NoResponse == [status |-> 0, body |-> [none |-> TRUE]]

Init ==
    /\ environ \in Environs
    /\ phase = "loading"
    /\ API_KEY = Unset
    /\ MODEL_TO_USE = ""
    /\ model = None
    /\ stdout = <<>>
    /\ request = NoRequest
    /\ provider = NoOutcome
    /\ outbound = <<>>
    /\ response = NoResponse
    /\ uncaught = ""
    /\ served = 0
    /\ sent = 0

-----------------------------------------------------------------------------
(* Module initialization, lines 10-32 *)

\* InitModel with the except clause of lines 29-32 not resetting the handle.
InitModelKeepsHandle(key, name, raises) ==
    IF KeyTruthy(key) THEN GenerativeModel(name) ELSE None

\* The handle left by the try block: configure and the constructor run only
\* with a truthy key, and either may raise.
InitModel(key, name, raises) ==
    IF KeyTruthy(key) /\ ~raises THEN GenerativeModel(name) ELSE None

InitPrints(key, raises) ==
    (IF ~KeyTruthy(key) THEN <<<<"FATAL: GOOGLE_API_KEY environment variable not found.">>>> ELSE <<>>)
    \o (IF KeyTruthy(key) /\ raises THEN <<<<"ERROR: Failed to configure Google Generative AI">>>> ELSE <<>>)

ModuleInit ==
    /\ phase = "loading"
    /\ \E raises \in BOOLEAN :
          /\ API_KEY' = environ
          /\ MODEL_TO_USE' = ModelName
          /\ model' = InitModel(environ, ModelName, raises)
          /\ stdout' = stdout \o InitPrints(environ, raises)
    /\ phase' = "serving"
    /\ UNCHANGED <<environ, request, provider, outbound, response, uncaught, served, sent>>

-----------------------------------------------------------------------------
(* GET /check, lines 84-101 *)

\* check with the status code not lowered to 503 (line 92 left out).
checkAlways200(m, name) ==
    [status |-> 200,
     body |-> [status |-> "ok",
               message |-> IF m = None
                           THEN "backend is running, but AI model failed to initialize."
                           ELSE "backend is running",
               model |-> name]]

check(m, name) ==
    IF ~ModelTruthy(m)
    THEN [status |-> 503,
          body |-> [status |-> "error",
                    message |-> "backend is running, but AI model failed to initialize.",
                    model |-> name]]
    ELSE [status |-> 200,
          body |-> [status |-> "ok", message |-> "backend is running", model |-> name]]

Check ==
    /\ phase = "serving"
    /\ served < MaxRequests
    /\ request' = [route |-> "/check", body |-> NoRequest.body]
    /\ response' = check(model, MODEL_TO_USE)
    /\ provider' = NoOutcome
    /\ outbound' = <<>>
    /\ uncaught' = ""
    /\ served' = served + 1
    /\ UNCHANGED <<environ, phase, API_KEY, MODEL_TO_USE, model, stdout, sent>>

-----------------------------------------------------------------------------
(* execute_watch_tonight, lines 43-80 *)

\* The f-string of lines 50-77: the query, or the placeholder when the query
\* is blank.
BuildPrompt(query) ==
    PROMPT_HEAD \o (IF strip(query) # <<>> THEN query ELSE PLACEHOLDER) \o PROMPT_TAIL

\* The result of one call: what it returns or raises, and the prompts it
\* handed to model.generate_content.  out is what the provider does if asked.
execute_watch_tonight(m, query, out) ==
    IF ~ModelTruthy(m)
    THEN [kind |-> "raise", exc |-> "Exception",
          text |-> <<"AI model failed to initialize due to missing or invalid API key.">>,
          prompts |-> <<>>]
    ELSE IF query.type # "string"
    THEN [kind |-> "raise", exc |-> "AttributeError",
          text |-> <<"object has no attribute 'strip'">>, prompts |-> <<>>]
    ELSE [kind |-> out.kind, exc |-> out.exc, text |-> out.text,
          prompts |-> <<BuildPrompt(query.str)>>]

-----------------------------------------------------------------------------
(* POST /api/execute, lines 105-135 *)

Handled(resp, prompts, printed) ==
    [response |-> resp, uncaught |-> "", prompts |-> prompts, printed |-> printed]

\* An exception that leaves the view function: Flask answers with its own
\* 500 page.
Unhandled(exc, prompts) ==
    [response |-> [status |-> 500, body |-> [html |-> "Internal Server Error"]],
     uncaught |-> exc, prompts |-> prompts, printed |-> <<>>]

NotInitializedResponse == [status |-> 503, body |-> [error |-> NOT_INITIALIZED]]
InvalidPayloadResponse == [status |-> 400, body |-> [error |-> INVALID_PAYLOAD]]

\* SuccessResponse relaying the text with its surrounding whitespace removed.
SuccessResponseStripped(result) ==
    [status |-> 200, body |-> [success |-> TRUE, result |-> strip(result)]]

SuccessResponse(result) == [status |-> 200, body |-> [success |-> TRUE, result |-> result]]

\* ApiErrorResponse without the interpolated exception.
ApiErrorResponseNoDetail(e) == [status |-> 503, body |-> [error |-> UNAVAILABLE_PREFIX]]

ApiErrorResponse(e) == [status |-> 503, body |-> [error |-> UNAVAILABLE_PREFIX \o e]]

\* InternalErrorResponse interpolating the exception as line 130 does.
InternalErrorResponseLeaks(e) == [status |-> 500, body |-> [error |-> GENERIC_ERROR \o e]]

InternalErrorResponse(e) == [status |-> 500, body |-> [error |-> GENERIC_ERROR]]

\* data.get('query', ''): only a dict has the method.
HasGet(data) == data.type = "object"
dict_get(data) == IF data.query.type = "absent" THEN PyStr(<<>>) ELSE data.query

\* The try block of lines 120-135 around the call.
TryCall(m, query, out) ==
    LET r == execute_watch_tonight(m, query, out) IN
    IF r.kind = "return" THEN Handled(SuccessResponse(r.text), r.prompts, <<>>)
    ELSE IF r.exc = "APIError"
    THEN Handled(ApiErrorResponse(r.text), r.prompts, <<<<"Gemini API Error: ">> \o r.text>>)
    ELSE Handled(InternalErrorResponse(r.text), r.prompts,
                 <<<<"Internal Server Error: ">> \o r.text>>)

execute(m, body, out) ==
    IF ~ModelTruthy(m) THEN Handled(NotInitializedResponse, <<>>, <<>>)
    ELSE LET data == get_json(body) IN
         IF ~Truthy(data) THEN Handled(InvalidPayloadResponse, <<>>, <<>>)
         ELSE IF ~HasGet(data) THEN Unhandled("AttributeError", <<>>)
         ELSE TryCall(m, dict_get(data), out)

Execute ==
    /\ phase = "serving"
    /\ served < MaxRequests
    /\ \E body \in Bodies, out \in ProviderOutcomes :
          LET r == execute(model, body, out) IN
          /\ request' = [route |-> "/api/execute", body |-> body]
          /\ response' = r.response
          /\ uncaught' = r.uncaught
          /\ outbound' = r.prompts
          /\ provider' = IF r.prompts # <<>> THEN out ELSE NoOutcome
          /\ stdout' = stdout \o r.printed
          /\ sent' = sent + Len(r.prompts)
    /\ served' = served + 1
    /\ UNCHANGED <<environ, phase, API_KEY, MODEL_TO_USE, model>>

-----------------------------------------------------------------------------

Next == ModuleInit \/ Check \/ Execute

Spec == Init /\ [][Next]_vars

-----------------------------------------------------------------------------
(* Properties *)

Serving == phase = "serving"
IsCheck == Serving /\ request.route = "/check"
IsExecute == Serving /\ request.route = "/api/execute"

\* The body is the text of a JSON document sent as JSON.
ParsesAsJson(body) ==
    body.mimetype = "application/json" /\ body.present /\ body.wellFormed

ErrorBody(resp) == DOMAIN resp.body = {"error"}

\* C1: with the handle unset because the credential is absent, /check
\* answers 503, /api/execute answers 503 "AI service not initialized" for
\* every body, and no generation call is made by any request.
C1_NoCredential ==
    (Serving /\ model = None /\ ~KeyTruthy(API_KEY)) =>
        /\ IsCheck => response.status = 503
        /\ IsExecute => /\ response.status = 503
                        /\ response.body = [error |-> NOT_INITIALIZED]
                        /\ uncaught = ""
        /\ outbound = <<>>
        /\ sent = 0

C1_Witness ==
    /\ IsExecute /\ model = None /\ ~KeyTruthy(API_KEY)
    /\ served = MaxRequests
    /\ ParsesAsJson(request.body)
    /\ request.body.value.query.type = "string"
    /\ response.status = 503

\* C2: with the handle set, a request whose body is the JSON object {} is
\* accepted: the call is made and the prompt holds the placeholder sentence.
C2_EmptyObjectAccepted ==
    (IsExecute /\ model # None /\ ParsesAsJson(request.body)
       /\ request.body.value = [type |-> "object", size |-> 0, query |-> NoQuery]) =>
        /\ response.status # 400
        /\ Len(outbound) = 1
        /\ Contains(outbound[1], PLACEHOLDER)

\* C3: with the handle set, a request whose body is absent or is not valid
\* JSON is answered 400 "Invalid or missing JSON payload." and makes no
\* generation call.
C3_InvalidPayload ==
    (IsExecute /\ model # None
       /\ (~request.body.present \/ ~request.body.wellFormed)) =>
        /\ response.status = 400
        /\ response.body = [error |-> INVALID_PAYLOAD]
        /\ uncaught = ""
        /\ outbound = <<>>

C3_Witness ==
    /\ IsExecute /\ model # None
    /\ request.body.present /\ ~request.body.wellFormed
    /\ request.body.mimetype = "application/json"
    /\ response.status = 400

\* C4: with the handle set and a JSON object body carrying a string query,
\* when the provider returns text X the response is 200 with exactly
\* {success: true, result: X}.
C4_RelayVerbatim ==
    (IsExecute /\ model # None /\ ParsesAsJson(request.body)
       /\ request.body.value.type = "object"
       /\ request.body.value.query.type = "string"
       /\ provider.kind = "return") =>
        /\ response.status = 200
        /\ response.body = [success |-> TRUE, result |-> provider.text]
        /\ uncaught = ""

C4_Witness ==
    /\ IsExecute /\ model # None /\ ParsesAsJson(request.body)
    /\ request.body.value.query = PyStr(<<"a">>)
    /\ provider.kind = "return"
    /\ provider.text = <<" ", "Y", " ">>
    /\ response.status = 200

\* C5: when the generation call raises the provider's APIError, the
\* response is 503 with an error string that contains the exception's
\* message.
C5_ProviderError ==
    (IsExecute /\ provider.kind = "raise" /\ provider.exc = "APIError") =>
        /\ response.status = 503
        /\ ErrorBody(response)
        /\ Contains(response.body.error, provider.text)
        /\ uncaught = ""

C5_Witness ==
    /\ IsExecute /\ provider.kind = "raise" /\ provider.exc = "APIError"
    /\ provider.text = <<"rate", "limit">>
    /\ response.status = 503

\* C6: when the generation call raises any other exception, the response is
\* 500 with the fixed generic message, the same whatever the exception, and
\* the exception's text does not appear in it.
C6_GenericError ==
    (IsExecute /\ provider.kind = "raise" /\ provider.exc # "APIError") =>
        /\ response = [status |-> 500, body |-> [error |-> GENERIC_ERROR]]
        /\ ~Contains(response.body.error, provider.text)
        /\ uncaught = ""

C6_Witness ==
    /\ IsExecute /\ provider.kind = "raise" /\ provider.exc = "ConnectionError"
    /\ provider.text = <<"quota">>
    /\ response.status = 500

\* C7: /check answers 200 "ok" exactly when the handle is set and 503
\* "error" otherwise, always reports the configured model identifier, makes
\* no generation call and leaves handle, credential and model name as they
\* were.
C7_CheckState ==
    IsCheck =>
        /\ response.status = 200 <=> model # None
        /\ model # None => response.body.status = "ok"
        /\ model = None => response.status = 503 /\ response.body.status = "error"
        /\ response.body.model = ModelName
        /\ response.body.model = MODEL_TO_USE
        /\ outbound = <<>>
        /\ uncaught = ""

C7_CheckFrame ==
    (served' # served /\ request'.route = "/check") =>
        UNCHANGED <<environ, API_KEY, MODEL_TO_USE, model, sent, stdout>>

C7_Check == []C7_CheckState /\ [][C7_CheckFrame]_vars

C7_Witness ==
    /\ IsCheck /\ model # None /\ response.status = 200
    /\ served = MaxRequests /\ sent = 1

\* C8: after startup the handle is set exactly when the credential was
\* present and construction did not raise; startup always ends with the
\* routes answering; no request changes the handle or the model name.
ConstructionRaised ==
    \E i \in 1..Len(stdout) : stdout[i] = <<"ERROR: Failed to configure Google Generative AI">>

C8_HandleState ==
    Serving =>
        /\ model # None <=> (KeyTruthy(environ) /\ ~ConstructionRaised)
        /\ model # None => model = GenerativeModel(ModelName)
        /\ MODEL_TO_USE = ModelName
        /\ served < MaxRequests => (ENABLED Check /\ ENABLED Execute)

C8_HandleFrame ==
    /\ phase = "loading" => phase' = "serving"
    /\ Serving => (model' = model /\ MODEL_TO_USE' = MODEL_TO_USE /\ phase' = phase)

C8_Handle == []C8_HandleState /\ [][C8_HandleFrame]_vars

C8_Witness ==
    /\ Serving /\ model = None /\ KeyTruthy(environ) /\ ConstructionRaised
    /\ served = MaxRequests
    /\ IsExecute /\ response.status = 503

RejectedUpFront(resp) ==
    \/ resp.status = 503 /\ resp.body = [error |-> NOT_INITIALIZED]
    \/ resp.status = 400 /\ resp.body = [error |-> INVALID_PAYLOAD]

\* C9: a request to /api/execute makes at most one generation call: exactly
\* one when it is rejected neither by the client check nor by body
\* validation, none otherwise; a failure of the call is answered in the
\* same response.
C9_ExactlyOneCall ==
    IsExecute =>
        /\ Len(outbound) <= 1
        /\ Len(outbound) = 1 <=> ~RejectedUpFront(response)
        /\ provider.kind = "raise" => response.status \in {500, 503}

\* C10: for every body that parses as JSON the handler returns one of the
\* five documented responses and no exception leaves it.
Documented(resp) ==
    \/ resp.status = 503 /\ resp.body = [error |-> NOT_INITIALIZED]
    \/ resp.status = 400 /\ resp.body = [error |-> INVALID_PAYLOAD]
    \/ resp.status = 200 /\ DOMAIN resp.body = {"success", "result"} /\ resp.body.success
    \/ resp.status = 503 /\ ErrorBody(resp)
         /\ SubSeq(resp.body.error, 1, Len(UNAVAILABLE_PREFIX)) = UNAVAILABLE_PREFIX
    \/ resp.status = 500 /\ resp.body = [error |-> GENERIC_ERROR]

C10_NoEscape ==
    (IsExecute /\ ParsesAsJson(request.body)) =>
        /\ uncaught = ""
        /\ Documented(response)

====
